---- MODULE Spec2Model ----
(***************************************************************************)
(* The client side of the soledad sync target: SyncTargetAPI (api.py) and   *)
(* HTTPDocSender (send.py).  One behaviour is one call of get_sync_info,    *)
(* record_sync_info or sync_exchange, running against a server whose        *)
(* answers are nondeterministic and, for the send phase, against the        *)
(* background encrypter that stages ciphertexts in the sync db.             *)
(***************************************************************************)
EXTENDS Integers, Sequences, FiniteSets, TLC

\* ---------------------------------------------------------------- bounds
MaxDocs == 3          \* longest docs_by_generation list
MaxGen == 2           \* target generations answered by the server: 1..MaxGen
FirstSrcGen == 7      \* source generation of the first changed document

\* ------------------------------------------------------------- constants
\* Python's None.  In Python 2 None orders below every number.
None == 0 - 1
NoneT == "None"
\* the number of entries drained per POST: entries.remove(1)
ChunkSize == 1

TransIds == {"T-a", "T-b"}
DocIdSet == 1 .. MaxDocs
Bools == {TRUE, FALSE}

\* doc.rev of the document with this id (a revision determines the content)
RevOf(d) == 10 + d
\* source transaction id recorded with a source generation
SrcTrans(g) == <<"src", g>>

\* twisted failures the transport's deferred can fire with:
\*   cls     the exception class (twisted.web.error.Error or anything else)
\*   errmsg  what failure.getErrorMessage() returns
Failures ==
    { [cls |-> "Error", status |-> 401, errmsg |-> "401 Unauthorized"],
      [cls |-> "Error", status |-> 401, errmsg |-> "401 Token expired"],
      [cls |-> "Error", status |-> 500, errmsg |-> "500 Internal Server Error"],
      [cls |-> "ConnectionLost", status |-> 0, errmsg |-> "Connection lost"],
      [cls |-> "ConnectionLost", status |-> 0, errmsg |-> "401 Unauthorized"] }
InvalidAuthTokenError ==
    [cls |-> "InvalidAuthTokenError", status |-> 0, errmsg |-> ""]
UnboundLocalError ==
    [cls |-> "UnboundLocalError", status |-> 0, errmsg |-> "result"]
NoErr == [cls |-> "none", status |-> 0, errmsg |-> ""]

\* the body of the server's answer to a POST
Bodies == [new_generation : 1 .. MaxGen, new_transaction_id : TransIds]

VARIABLES
    call,                \* the API call of this behaviour
    pc,                  \* where that call stands
    docs_by_generation,  \* sync_exchange's argument
    sync_enc_pool,       \* TRUE iff the target was built with an encryption pool
    nresolved,           \* documents _entries_from_docs has gone through
    entries,             \* the RequestBody being filled, then drained
    total,               \* _send_docs: total
    result,              \* _send_docs: result (<<>> while unbound)
    gen_after_send,
    trans_id_after_send,
    inflight,            \* requests issued and not yet answered
    posts,               \* every chunk POSTed so far, in order of issue
    acks,                \* the numbers of the chunks answered so far, in order
    last_answer,         \* the latest chunk answer received (<<>> before)
    prev_answer,         \* the chunk answer received before that one
    failures,            \* every failed GET, PUT or chunk: the request and the failure
    queued,              \* keys the background encrypter still works on
    staged,              \* keys with a ciphertext in the sync db
    lookups,             \* keys asked with get_encrypted_doc
    deletes,             \* keys given to delete_encrypted_doc, in order
    events,              \* progress events emitted, in order
    recv,                \* what the receive phase reported (<<>> before)
    ret,                 \* what the call returned (<<>> before)
    err,                 \* the failure the call ended with
    effects,             \* the deletions and progress events, in the order made
    sync_id_arg,         \* sync_exchange's argument sync_id
    sync_id,             \* sync_exchange: sync_id (NoneT before the call)
    metadata_sync_id,    \* the sync_id put in the metadata of the RequestBody
    recv_sync_id,        \* the sync_id _receive_docs was called with (NoneT before)
    \* SyncTargetAPI, credentials and headers
    _auth_header,        \* the stored header dict
    api_token,           \* the token of the last set_creds
    api_wire,            \* every request handed to the http client, in order
    \* PinnedTokenAgent
    agent_token,         \* _token
    agent_creds,         \* _creds
    header_objs,         \* the caller's Headers objects: their Authorization values
    agent_wire,          \* every request handed to Agent.request, in order
    \* Soledad (src/__init__.py): one secret file, several processes
    secret_file,         \* the file at SECRET_PATH
    spc,                 \* per process: where it stands in Soledad.__init__
    _secret,             \* per process: self._secret
    cyphertext,          \* per process: the local cyphertext of _gen_secret
    raised,              \* per process: what its call raised
    stops,               \* how often a process was stopped
    first_secret         \* the secret the first _gen_secret generated

sendVars == <<nresolved, entries, total, result, gen_after_send,
              trans_id_after_send>>
netVars == <<inflight, posts, acks, last_answer, prev_answer, failures>>
poolVars == <<queued, staged, lookups, deletes>>
idVars == <<sync_id_arg, sync_id, metadata_sync_id, recv_sync_id>>
syncVars == <<call, pc, docs_by_generation, sync_enc_pool, sendVars, netVars,
              poolVars, events, recv, ret, err, effects, idVars>>
apiVars == <<_auth_header, api_token, api_wire>>
agentVars == <<agent_token, agent_creds, header_objs, agent_wire>>
\* what an action of the sync calls leaves alone
secretVars == <<secret_file, spc, _secret, cyphertext, raised, stops,
                first_secret>>
outsideSync == <<apiVars, agentVars, secretVars>>
vars == <<syncVars, apiVars, agentVars, secretVars>>

\* ------------------------------------------------------------ the inputs
\* A (doc, gen, trans_id) tuple of docs_by_generation.
DocTuple(d, tomb, g) ==
    [doc |-> [doc_id |-> d, rev |-> RevOf(d), tombstone |-> tomb],
     gen |-> g, trans_id |-> SrcTrans(g)]

\* The lists of changed documents: each document once, in generation order,
\* the ids ascending or descending along the list.
DocLists ==
    UNION { { [k \in 1 .. n |->
                 DocTuple(IF asc THEN k ELSE n + 1 - k, tomb[k],
                          FirstSrcGen + k - 1)] :
              tomb \in [1 .. n -> Bools], asc \in Bools } :
            n \in 0 .. MaxDocs }

Key(doc) == <<doc.doc_id, doc.rev>>


Min(a, b) == IF a < b THEN a ELSE b

\* ----------------------------------------------- RequestBody (support.py)
\* insert_info appends one entry to the body.
insert_info(body, entry) == Append(body, entry)
\* remove(number) takes the first entries out of the body and returns them.
removed(body, number) == SubSeq(body, 1, Min(number, Len(body)))
remaining(body, number) == SubSeq(body, Min(number, Len(body)) + 1, Len(body))

\* ------------------------------------------------------ the encryption pool
\* get_encrypted_doc fires with the staged ciphertext, or with None.
StagedCt(doc) == <<"ct", doc.doc_id, doc.rev, "staged">>
get_encrypted_doc(store, doc) == IF Key(doc) \in store THEN StagedCt(doc) ELSE <<>>
\* delete_encrypted_doc removes the entry; a no-op when there is none.
delete_encrypted_doc(store, key) == store \ {key}
\* self._crypto.encrypt_doc(doc)
crypto_encrypt_doc(doc) == <<"ct", doc.doc_id, doc.rev, "inline">>
CryptoError == [cls |-> "CryptoError", status |-> 0, errmsg |-> "encrypt_doc"]

\* ------------------------------------------------------------- send.py
\* _defer_encryption (api.py): the pool is not None
_defer_encryption(pool) == pool

\* _encrypt_doc(doc): the content of the entry; doc_json is what the sync db
\* holds for the document when it is asked.
\* (a variant without the inline fallback)
NoInlineFallback(doc, doc_json) == doc_json

_maybe_encrypt_doc_inline(doc, doc_json) ==
    IF doc_json = <<>> THEN crypto_encrypt_doc(doc) ELSE doc_json
_encrypt_doc(doc, pool, store) ==
    IF doc.tombstone THEN <<>>
    ELSE IF ~ _defer_encryption(pool) THEN crypto_encrypt_doc(doc)
    ELSE _maybe_encrypt_doc_inline(doc, get_encrypted_doc(store, doc))
\* _encrypt_doc asks the pool only for a live document of a deferring target
AsksPool(doc, pool) == ~ doc.tombstone /\ _defer_encryption(pool)

\* (a variant counting the documents from 0, as enumerate does by default)
EntryOfZeroBased(tup, idx, number_of_docs, content) ==
    [id |-> tup.doc.doc_id, rev |-> tup.doc.rev, content |-> content,
     gen |-> tup.gen, trans_id |-> tup.trans_id,
     number_of_docs |-> number_of_docs, doc_idx |-> idx - 1]

\* the entry _entries_from_docs inserts for the idx-th tuple
EntryOf(tup, idx, number_of_docs, content) ==
    [id |-> tup.doc.doc_id, rev |-> tup.doc.rev, content |-> content,
     gen |-> tup.gen, trans_id |-> tup.trans_id,
     number_of_docs |-> number_of_docs, doc_idx |-> idx]

\* (a variant without the early return)
NeverNothingToSend(docs) == FALSE

\* (a variant that starts sending as soon as one entry is ready)
FirstEntryReady(idx, number_of_docs) == idx >= 1

\* entries = yield self._entries_from_docs(...): the loop of _send_docs starts
\* when the entry of the last document has been inserted
EntriesComplete(idx, number_of_docs) == idx = number_of_docs

\* if not docs_by_generation
NothingToSend(docs) == Len(docs) = 0

\* (a variant that does not wait for the answers: every chunk is issued in
\* one go)
IssueAllChunks(ents) == Len(ents)

\* The while loop issues one request per iteration and is suspended at the
\* yield until that request is answered.
ChunksToIssue(ents) == IF Len(ents) > 0 THEN 1 ELSE 0

\* idx = total - len(entries)
SentIdx(tot, ents) == tot - Len(ents)

\* (a variant indexing the list with idx instead of idx - 1)
DeleteSentOffByOne(idx, docs) ==
    Key(docs[IF idx < Len(docs) THEN idx + 1 ELSE 1].doc)

\* _delete_sent(idx, docs_by_generation): the key handed to the pool
\* (docs_by_generation[idx - 1] of the 0-based list is the idx-th tuple)
_delete_sent(idx, docs) == Key(docs[idx].doc)

\* _emit_send_status(idx, total): the message "%d/%d"
_emit_send_status(idx, tot) == <<idx, tot>>

\* (a variant that keeps the answer to the first chunk)
KeepFirstResult(old, body) == IF old = <<>> THEN body ELSE old

\* result = yield self._http_request(...)
BindResult(old, body) == body

\* (a variant that catches the failure and goes on with the loop)
ChunkErrorSwallowed == FALSE

\* no try/except around the yield: a failed chunk ends _send_docs
ChunkErrorPropagates == TRUE

\* -------------------------------------------------------------- api.py
\* (a variant that looks at the status only)
UnauthAnyStatus401(failure) ==
    IF failure.cls # "Error" THEN failure
    ELSE IF failure.status = 401 THEN InvalidAuthTokenError
    ELSE failure

_unauth_to_invalid_token_error(failure) ==
    IF failure.cls # "Error" THEN failure
    ELSE IF failure.errmsg = "401 Unauthorized" THEN InvalidAuthTokenError
    ELSE failure

\* (a variant where an equal generation lets the send phase win)
ReconcileGeq(gs, ts, gr, tr) ==
    IF gs # None /\ gs >= gr THEN <<gs, ts>> ELSE <<gr, tr>>
\* (a variant that forgets to take the transaction id along)
ReconcileGenOnly(gs, ts, gr, tr) ==
    IF gs # None /\ gs > gr THEN <<gs, tr>> ELSE <<gr, tr>>

\* the end of sync_exchange
Reconcile(gs, ts, gr, tr) ==
    IF gs # None /\ gs > gr THEN <<gs, ts>> ELSE <<gr, tr>>


\* ------------------------------------------- credentials (api.py, _http.py)
MaxRequests == 2      \* requests issued in one behaviour of the header models
Uuid == "uuid-of-user"
Tokens == {"tok-a", "tok-b", "tok-c"}
\* base64.b64encode of '%s:%s' % (uuid, token)
b64encode(text) == <<"b64", text>>
\* 'Token %s' % b64_token
TokenValue(uuid, token) == <<"Token", b64encode(<<uuid, ":", token>>)>>

\* set_creds(creds): the dict stored in _auth_header
set_creds(uuid, token) == "Authorization" :> <<TokenValue(uuid, token)>>
\* headers.update({'content-type': [content_type]})
update_content_type(headers, content_type) ==
    ("content-type" :> <<content_type>>) @@ headers

\* (a variant of _base_header that hands out the stored dict itself)
StoredIsUpdated(stored, sent) == sent

\* _base_header hands out a copy, so the update of the headers of a request
\* leaves the stored dict as it is
StoredAfterRequest(stored, sent) == stored

\* the three kinds of request of the sync endpoint
RequestKinds ==
    { [method |-> "GET", content_type |-> "none"],
      [method |-> "PUT", content_type |-> "application/json"],
      [method |-> "POST", content_type |-> "application/x-soledad-sync-put"] }

\* _http_request: the headers handed to the http client
RequestHeaders(stored, content_type) ==
    IF content_type # "none" THEN update_content_type(stored, content_type)
    ELSE stored

\* PinnedTokenAgent._encoded_creds
_encoded_creds(uuid, token) == TokenValue(uuid, token)

\* (a variant of set_token that does not refresh _creds)
StaleCreds(uuid, creds, token) == creds

\* set_token: the new value of _creds
set_token(uuid, creds, token) == _encoded_creds(uuid, token)

\* the Headers objects a caller may pass to request; "none" is headers=None
HeaderObjs == {"h1"}
\* headers.addRawHeader('Authorization', self._creds)
addRawHeader(values, value) == Append(values, value)

\* ------------------------------------------------ the secret (__init__.py)
MaxStops == 1         \* how often a process is stopped (crash or exit)
Procs == {"p1", "p2"}
Secrets == {"s1", "s2"}
OwnKey == "key-of-owner"          \* self._fingerprint
OtherKey == "key-of-another"

\* self._gpg.encrypt(data, fingerprint, ...): a result object
gpg_encrypt(data, key) == [ok |-> TRUE, data |-> <<"gpg", key, data>>]
\* str(result): the armored text of a result object
str(crypt) == crypt.data
\* self._gpg.decrypt(text) with the private key of `key`: a result object,
\* empty and not ok when the text is no ciphertext for that key
gpg_decrypt(text, key) ==
    IF Len(text) = 3 /\ text[1] = "gpg" /\ text[2] = key
    THEN [type |-> "result", ok |-> TRUE, data |-> text[3]]
    ELSE [type |-> "result", ok |-> FALSE, data |-> ""]

\* self._secret: unset, the string of _gen_secret, the result of _load_secret
NoSecret == [type |-> "none", ok |-> FALSE, data |-> ""]
SecretString(secret) == [type |-> "str", ok |-> TRUE, data |-> secret]

\* the file at SECRET_PATH: absent, or its content and whether open() works
Absent == [exists |-> FALSE, readable |-> FALSE, content |-> <<>>]
FileWith(content, readable) ==
    [exists |-> TRUE, readable |-> readable, content |-> content]
\* os.path.isfile(self.SECRET_PATH)
_has_secret(file) == file.exists
\* open(self.SECRET_PATH, 'w'): creates the file or truncates it
open_w(file) == FileWith(<<>>, IF file.exists THEN file.readable ELSE TRUE)
\* f.write(text); f.close()
write_close(file, text) == FileWith(text, file.readable)

\* what gpg.decrypt does with a text it cannot decrypt: python-gnupg hands
\* back a result that is not ok; a wrapper may raise instead
DecryptFailureOutcomes == {"result", "raises"}

\* the files a process may find at start
FoundFiles ==
    {Absent, FileWith(<<>>, TRUE), FileWith(<<"garbage">>, TRUE)}
    \cup { FileWith(str(gpg_encrypt(secret, key)), readable) :
              secret \in {"s1"}, key \in {OwnKey, OtherKey},
              readable \in BOOLEAN }

\* ------------------------------------------------------------- the state
KeysToStage(docs) ==
    { Key(docs[k].doc) : k \in { i \in 1 .. Len(docs) : ~ docs[i].doc.tombstone } }

\* the state of a new target, before any call
NewTarget ==
    /\ call = "none"
    /\ pc = "idle"
    /\ sync_enc_pool \in Bools
    /\ nresolved = 0
    /\ entries = <<>>
    /\ total = 0
    /\ result = <<>>
    /\ gen_after_send = None
    /\ trans_id_after_send = NoneT
    /\ inflight = {}
    /\ posts = <<>>
    /\ acks = <<>>
    /\ last_answer = <<>>
    /\ prev_answer = <<>>
    /\ failures = <<>>
    /\ queued = IF sync_enc_pool THEN KeysToStage(docs_by_generation) ELSE {}
    /\ staged = {}
    /\ lookups = {}
    /\ deletes = <<>>
    /\ events = <<>>
    /\ recv = <<>>
    /\ ret = <<>>
    /\ err = NoErr
    /\ effects = <<>>
    /\ sync_id = NoneT
    /\ metadata_sync_id = NoneT
    /\ recv_sync_id = NoneT

\* SyncTargetAPI.__init__ calls set_creds(creds)
NewCreds(token) ==
    /\ _auth_header = set_creds(Uuid, token)
    /\ api_token = token
    /\ api_wire = <<>>
\* PinnedTokenAgent.__init__ calls set_token(token)
NewAgent(token) ==
    /\ agent_token = token
    /\ agent_creds = set_token(Uuid, <<>>, token)    \* _creds = None before
    /\ header_objs = [h \in HeaderObjs |-> <<>>]
    /\ agent_wire = <<>>

\* no Soledad object yet, no secret file
NoSoledad(file, at) ==
    /\ secret_file = file
    /\ spc = at
    /\ _secret = [p \in Procs |-> NoSecret]
    /\ cyphertext = [p \in Procs |-> <<>>]
    /\ raised = [p \in Procs |-> "none"]
    /\ stops = 0
    /\ first_secret = "none"
AllOff == [p \in Procs |-> "off"]

\* The caller names the sync session.
Init ==
    /\ docs_by_generation \in DocLists
    /\ sync_id_arg = "sync-of-caller"
    /\ NewTarget
    /\ NewCreds("tok-a")
    /\ NewAgent("tok-a")
    /\ NoSoledad(Absent, AllOff)

\* The caller may leave the session unnamed; the documents are all live.
LiveDocLists ==
    { docs \in DocLists : \A k \in 1 .. Len(docs) : ~ docs[k].doc.tombstone }
InitSync ==
    /\ docs_by_generation \in LiveDocLists
    /\ sync_id_arg \in {NoneT, "sync-of-caller"}
    /\ NewTarget
    /\ NewCreds("tok-a")
    /\ NewAgent("tok-a")
    /\ NoSoledad(Absent, AllOff)

\* ------------------------------------------------- the loop of _send_docs
RECURSIVE Drained(_, _)
\* the bodies of n successive entries.remove(ChunkSize)
Drained(ents, n) ==
    IF n = 0 THEN <<>>
    ELSE <<removed(ents, ChunkSize)>> \o Drained(remaining(ents, ChunkSize), n - 1)
RECURSIVE LeftAfter(_, _)
LeftAfter(ents, n) ==
    IF n = 0 THEN ents ELSE LeftAfter(remaining(ents, ChunkSize), n - 1)

PostReq(k) == [method |-> "POST", n |-> k,
               content_type |-> "application/x-soledad-sync-put"]

\* _send_docs from the test of its while loop to its next suspension, with
\* entries = ents, result = res and the requests fl unanswered: the next chunk is POSTed, or the loop is
\* over and the last answer is parsed and returned to sync_exchange, which
\* starts the receive phase.
SendLoop(ents, res, fl) ==
    LET n == ChunksToIssue(ents) IN
    IF n > 0
    THEN /\ posts' = posts \o Drained(ents, n)
         /\ inflight' = fl \cup { PostReq(Len(posts) + i) : i \in 1 .. n }
         /\ entries' = LeftAfter(ents, n)
         /\ result' = res
         /\ pc' = "posting"
         /\ UNCHANGED <<gen_after_send, trans_id_after_send, err, recv_sync_id>>
    ELSE /\ UNCHANGED posts
         /\ inflight' = fl
         /\ entries' = ents
         /\ result' = res
         /\ IF res = <<>>
            THEN /\ pc' = "failed"
                 /\ err' = UnboundLocalError
                 /\ UNCHANGED <<gen_after_send, trans_id_after_send, recv_sync_id>>
            ELSE /\ gen_after_send' = res.new_generation
                 /\ trans_id_after_send' = res.new_transaction_id
                 /\ pc' = "receiving"
                 /\ recv_sync_id' = sync_id
                 /\ UNCHANGED err


\* ------------------------------------------------------------ sync_exchange
\* str(uuid4())
Uuids == {"uuid-a", "uuid-b"}

\* (a variant that always takes a new identifier)
AlwaysFreshSyncId(arg, fresh) == fresh

\* if sync_id is None: sync_id = str(uuid4())
SyncIdFor(arg, fresh) == IF arg = NoneT THEN fresh ELSE arg

\* sync_exchange is called: _send_docs runs to its first suspension.
SyncExchange ==
    /\ pc = "idle"
    /\ call' = "sync_exchange"
    /\ \E fresh \in Uuids : sync_id' = SyncIdFor(sync_id_arg, fresh)
    /\ IF NothingToSend(docs_by_generation)
       THEN /\ gen_after_send' = None
            /\ trans_id_after_send' = NoneT
            /\ pc' = "receiving"
            /\ recv_sync_id' = sync_id'
            /\ UNCHANGED <<nresolved, entries, total, result, netVars, err,
                           metadata_sync_id>>
       ELSE /\ total' = Len(docs_by_generation)
            /\ nresolved' = 0
            /\ metadata_sync_id' = sync_id'
            /\ UNCHANGED <<acks, last_answer, prev_answer, failures>>
            /\ IF Len(docs_by_generation) > 0
               THEN /\ pc' = "entries"
                    /\ UNCHANGED <<entries, result, gen_after_send,
                                   trans_id_after_send, inflight, posts, err,
                                   recv_sync_id>>
               ELSE SendLoop(entries, result, inflight)
    /\ UNCHANGED <<docs_by_generation, sync_enc_pool, poolVars, events, recv, ret,
                   effects, sync_id_arg>>
    /\ UNCHANGED outsideSync

\* One turn of the loop of _entries_from_docs: the payload of the next
\* document is resolved and its entry inserted; after the last document the
\* first chunk is POSTed.
EntryFromDoc ==
    /\ pc = "entries"
    /\ nresolved < Len(docs_by_generation)
    /\ LET idx == nresolved + 1
           tup == docs_by_generation[idx]
           content == _encrypt_doc(tup.doc, sync_enc_pool, staged)
           ents == insert_info(entries,
                               EntryOf(tup, idx, Len(docs_by_generation), content))
       IN /\ nresolved' = idx
          /\ lookups' = IF AsksPool(tup.doc, sync_enc_pool)
                        THEN lookups \cup {Key(tup.doc)} ELSE lookups
          /\ IF ~ EntriesComplete(idx, Len(docs_by_generation))
             THEN /\ entries' = ents
                  /\ UNCHANGED <<pc, result, gen_after_send, trans_id_after_send,
                                 inflight, posts, err, recv_sync_id>>
             ELSE SendLoop(ents, result, inflight)
    /\ UNCHANGED <<call, docs_by_generation, sync_enc_pool, total, acks,
                   last_answer, prev_answer, failures, queued, staged, deletes,
                   events, recv, ret, effects, sync_id_arg, sync_id,
                   metadata_sync_id>>
    /\ UNCHANGED outsideSync

\* The lookup or the encryption of the next live document fails: the failure
\* leaves _entries_from_docs, _send_docs and sync_exchange.
EntryFromDocFails ==
    /\ pc = "entries"
    /\ nresolved < Len(docs_by_generation)
    /\ ~ docs_by_generation[nresolved + 1].doc.tombstone
    /\ pc' = "failed"
    /\ err' = CryptoError
    /\ UNCHANGED <<call, docs_by_generation, sync_enc_pool, sendVars, netVars,
                   poolVars, events, recv, ret, effects, idVars>>
    /\ UNCHANGED outsideSync

\* (a variant that reports the progress before deleting)
EmitBeforeDelete(idx, docs, tot, pool) ==
    <<[op |-> "emit", arg |-> _emit_send_status(idx, tot)]>>
    \o (IF _defer_encryption(pool)
        THEN <<[op |-> "delete", arg |-> _delete_sent(idx, docs)]>> ELSE <<>>)

\* what the body of the loop does after the yield, in its order
ChunkEffects(idx, docs, tot, pool) ==
    (IF _defer_encryption(pool)
     THEN <<[op |-> "delete", arg |-> _delete_sent(idx, docs)]>> ELSE <<>>)
    \o <<[op |-> "emit", arg |-> _emit_send_status(idx, tot)]>>

\* What follows an accepted chunk up to the next suspension of _send_docs.
AfterChunk(res, fl) ==
    LET idx == SentIdx(total, entries) IN
    /\ effects' = effects \o ChunkEffects(idx, docs_by_generation, total,
                                          sync_enc_pool)
    /\ IF _defer_encryption(sync_enc_pool)
       THEN /\ deletes' = Append(deletes, _delete_sent(idx, docs_by_generation))
            /\ staged' = delete_encrypted_doc(staged,
                                              _delete_sent(idx, docs_by_generation))
       ELSE UNCHANGED <<deletes, staged>>
    /\ events' = Append(events, _emit_send_status(idx, total))
    /\ SendLoop(entries, res, fl)

\* The server answers a chunk.
ChunkAccepted ==
    /\ pc = "posting"
    /\ \E r \in inflight, body \in Bodies :
          /\ r.method = "POST"
          /\ acks' = Append(acks, r.n)
          /\ last_answer' = body
          /\ prev_answer' = last_answer
          /\ UNCHANGED failures
          /\ AfterChunk(BindResult(result, body), inflight \ {r})
    /\ UNCHANGED <<call, docs_by_generation, sync_enc_pool, nresolved, total,
                   queued, lookups, recv, ret, sync_id_arg, sync_id,
                   metadata_sync_id>>
    /\ UNCHANGED outsideSync

\* A chunk request fails.
ChunkFails ==
    /\ pc = "posting"
    /\ \E r \in inflight, f \in Failures :
          /\ r.method = "POST"
          /\ failures' = Append(failures, [req |-> r, failure |-> f])
          /\ UNCHANGED <<acks, last_answer, prev_answer>>
          /\ IF ChunkErrorPropagates
             THEN /\ pc' = "failed"
                  /\ err' = _unauth_to_invalid_token_error(f)
                  /\ inflight' = inflight \ {r}
                  /\ UNCHANGED <<entries, result, gen_after_send,
                                 trans_id_after_send, posts, deletes, staged,
                                 events, effects, recv_sync_id>>
             ELSE AfterChunk(result, inflight \ {r})
    /\ UNCHANGED <<call, docs_by_generation, sync_enc_pool, nresolved, total,
                   queued, lookups, recv, ret, sync_id_arg, sync_id,
                   metadata_sync_id>>
    /\ UNCHANGED outsideSync

\* _receive_docs ends with the target's generation and transaction id, and
\* sync_exchange returns.
ReceiveDone ==
    /\ pc = "receiving"
    /\ \E g \in 1 .. MaxGen, t \in TransIds :
          /\ recv' = <<g, t>>
          /\ ret' = Reconcile(gen_after_send, trans_id_after_send, g, t)
    /\ pc' = "done"
    /\ UNCHANGED <<call, docs_by_generation, sync_enc_pool, sendVars, netVars,
                   poolVars, events, err, effects, idVars>>
    /\ UNCHANGED outsideSync

\* _receive_docs fails.
ReceiveFails ==
    /\ pc = "receiving"
    /\ \E f \in Failures : err' = _unauth_to_invalid_token_error(f)
    /\ pc' = "failed"
    /\ UNCHANGED <<call, docs_by_generation, sync_enc_pool, sendVars, netVars,
                   poolVars, events, recv, ret, effects, idVars>>
    /\ UNCHANGED outsideSync

\* --------------------------------------- get_sync_info, record_sync_info
SyncInfos ==
    [target_replica_uid : {"target"},
     target_replica_generation : 1 .. MaxGen,
     target_replica_transaction_id : TransIds,
     source_replica_generation : {FirstSrcGen - 1},
     source_transaction_id : {SrcTrans(FirstSrcGen - 1)}]

GetSyncInfo ==
    /\ pc = "idle"
    /\ call' = "get_sync_info"
    /\ inflight' = {[method |-> "GET", n |-> 0, content_type |-> "none"]}
    /\ pc' = "waiting"
    /\ UNCHANGED <<docs_by_generation, sync_enc_pool, sendVars, posts, acks,
                   last_answer, prev_answer, failures, poolVars, events, recv, ret, err, effects, idVars>>
    /\ UNCHANGED outsideSync

RecordSyncInfo ==
    /\ pc = "idle"
    /\ call' = "record_sync_info"
    /\ inflight' = {[method |-> "PUT", n |-> 0, content_type |-> "application/json"]}
    /\ pc' = "waiting"
    /\ UNCHANGED <<docs_by_generation, sync_enc_pool, sendVars, posts, acks,
                   last_answer, prev_answer, failures, poolVars, events, recv, ret, err, effects, idVars>>
    /\ UNCHANGED outsideSync

\* The GET or the PUT is answered.
InfoAnswered ==
    /\ pc = "waiting"
    /\ \E r \in inflight :
          /\ inflight' = inflight \ {r}
          /\ IF r.method = "GET"
             THEN \E res \in SyncInfos :
                     ret' = <<res.target_replica_uid,
                              res.target_replica_generation,
                              res.target_replica_transaction_id,
                              res.source_replica_generation,
                              res.source_transaction_id>>
             ELSE ret' = <<"ok">>
    /\ pc' = "done"
    /\ UNCHANGED <<call, docs_by_generation, sync_enc_pool, sendVars, posts, acks,
                   last_answer, prev_answer, failures, poolVars, events, recv, err, effects, idVars>>
    /\ UNCHANGED outsideSync

\* The GET or the PUT fails.
InfoFails ==
    /\ pc = "waiting"
    /\ \E r \in inflight, f \in Failures :
          /\ inflight' = inflight \ {r}
          /\ failures' = Append(failures, [req |-> r, failure |-> f])
          /\ err' = _unauth_to_invalid_token_error(f)
    /\ pc' = "failed"
    /\ UNCHANGED <<call, docs_by_generation, sync_enc_pool, sendVars, posts, acks,
                   last_answer, prev_answer, poolVars, events, recv, ret, effects, idVars>>
    /\ UNCHANGED outsideSync

\* ------------------------------------------------ the background encrypter
\* The pool finishes encrypting a queued document and stores the ciphertext.
StageComplete ==
    /\ \E k \in queued :
          /\ queued' = queued \ {k}
          /\ staged' = staged \cup {k}
    /\ UNCHANGED <<call, pc, docs_by_generation, sync_enc_pool, sendVars, netVars,
                   lookups, deletes, events, recv, ret, err, effects, idVars>>
    /\ UNCHANGED outsideSync

Next ==
    \/ SyncExchange
    \/ EntryFromDoc
    \/ EntryFromDocFails
    \/ ChunkAccepted
    \/ ChunkFails
    \/ ReceiveDone
    \/ ReceiveFails
    \/ GetSyncInfo
    \/ RecordSyncInfo
    \/ InfoAnswered
    \/ InfoFails
    \/ StageComplete

Spec == Init /\ [][Next]_vars
SpecSync == InitSync /\ [][Next]_vars

\* ------------------------------------------- the headers of SyncTargetAPI
\* the requests issued so far, through the target and through the agent
Issued == Len(api_wire) + Len(agent_wire)

\* set_creds(creds)
SetCreds ==
    /\ \E token \in Tokens :
          /\ _auth_header' = set_creds(Uuid, token)
          /\ api_token' = token
    /\ UNCHANGED <<api_wire, syncVars, agentVars, secretVars>>

\* _http_request(url, method, body, content_type=...) as get_sync_info,
\* record_sync_info and _send_docs call it
HttpRequest ==
    /\ Issued < MaxRequests
    /\ \E kind \in RequestKinds :
          LET sent == RequestHeaders(_auth_header, kind.content_type) IN
          /\ api_wire' = Append(api_wire, [method |-> kind.method,
                                           headers |-> sent,
                                           token |-> api_token])
          /\ _auth_header' = StoredAfterRequest(_auth_header, sent)
    /\ UNCHANGED <<api_token, syncVars, agentVars, secretVars>>

\* -------------------------------------------------- PinnedTokenAgent
\* set_token(token)
AgentSetToken ==
    /\ \E token \in Tokens :
          /\ agent_token' = token
          /\ agent_creds' = set_token(Uuid, agent_creds, token)
    /\ UNCHANGED <<header_objs, agent_wire, syncVars, apiVars, secretVars>>

\* request(method, uri, headers): headers is None or one of the caller's
\* Headers objects
AgentRequest ==
    /\ Issued < MaxRequests
    /\ \E h \in HeaderObjs \cup {"none"} :
          LET before == IF h = "none" THEN <<>> ELSE header_objs[h]
              after == addRawHeader(before, agent_creds)
          IN /\ header_objs' = IF h = "none" THEN header_objs
                               ELSE [header_objs EXCEPT ![h] = after]
             /\ agent_wire' = Append(agent_wire, [headers |-> h,
                                                  Authorization |-> after,
                                                  token |-> agent_token])
    /\ UNCHANGED <<agent_token, agent_creds, syncVars, apiVars, secretVars>>

\* A target and an agent right after construction, no sync call running.
InitAuth ==
    /\ docs_by_generation = <<>>
    /\ sync_id_arg = NoneT
    /\ NewTarget
    /\ \E token \in Tokens : NewCreds(token)
    /\ \E token \in Tokens : NewAgent(token)
    /\ NoSoledad(Absent, AllOff)
NextAuth == SetCreds \/ HttpRequest \/ AgentSetToken \/ AgentRequest
SpecAuth == InitAuth /\ [][NextAuth]_vars


\* ======================================================== the properties
NDocs == Len(docs_by_generation)
InExchange == call = "sync_exchange"
\* _send_docs has returned to sync_exchange
SendReturned == InExchange /\ pc \in {"receiving", "done"}
CeilDiv(a, b) == (a + b - 1) \div b
RECURSIVE Flatten(_)
Flatten(ss) == IF ss = <<>> THEN <<>> ELSE Head(ss) \o Flatten(Tail(ss))
\* every entry put on the wire so far, in the order it was put there
Wire == Flatten(posts)
Occurrences(seq, x) == Cardinality({ i \in 1 .. Len(seq) : seq[i] = x })
\* the chunk request number j was answered with a response
Acked(j) == \E i \in 1 .. Len(acks) : acks[i] = j
\* the chunk request number j carries the k-th document
Carries(j, k) ==
    \E i \in 1 .. Len(posts[j]) :
        /\ posts[j][i].id = docs_by_generation[k].doc.doc_id
        /\ posts[j][i].rev = docs_by_generation[k].doc.rev
ChunkFailures == { i \in 1 .. Len(failures) : failures[i].req.method = "POST" }

\* C1: once _send_docs has returned for a non-empty list of N documents, it
\* has issued exactly ceil(N / chunk size) = N POST requests, all answered,
\* and the pair it returned is the one of the last answer received.
C1_RequestsAndLastResponse ==
    (SendReturned /\ NDocs > 0) =>
        /\ Len(posts) = CeilDiv(NDocs, ChunkSize)
        /\ Len(posts) = NDocs
        /\ Len(acks) = NDocs
        /\ inflight = {}
        /\ gen_after_send = last_answer.new_generation
        /\ trans_id_after_send = last_answer.new_transaction_id
C1_Witness ==
    /\ SendReturned /\ NDocs = 3 /\ Len(posts) = 3 /\ acks = <<1, 2, 3>>
    /\ prev_answer.new_generation # last_answer.new_generation
    /\ prev_answer.new_transaction_id # last_answer.new_transaction_id
    /\ gen_after_send = last_answer.new_generation
    /\ trans_id_after_send = last_answer.new_transaction_id

\* C2: for an empty list _send_docs returns (None, None) at once: no request
\* is issued, the pool is neither asked nor told to delete, and no progress
\* event is emitted.
C2_EmptySendIsFree ==
    (InExchange /\ NDocs = 0) =>
        /\ pc \in {"receiving", "done", "failed"}
        /\ err.cls \notin {"UnboundLocalError", "CryptoError"}
        /\ gen_after_send = None /\ trans_id_after_send = NoneT
        /\ posts = <<>> /\ inflight = {} /\ acks = <<>> /\ failures = <<>>
        /\ lookups = {} /\ deletes = <<>> /\ events = <<>>
C2_Witness ==
    /\ InExchange /\ NDocs = 0 /\ sync_enc_pool /\ pc = "done"
    /\ gen_after_send = None /\ ret = recv

\* C3: with staging enabled, at every point the deletion of the staged entry
\* of a document has been asked if and only if the chunk carrying the document
\* has been answered; the i-th deletion is that of the document of the i-th
\* answered chunk, and no key is deleted twice.
C3_DeletedIffAcknowledged ==
    (InExchange /\ sync_enc_pool) =>
        /\ \A k \in 1 .. NDocs :
              (Occurrences(deletes, Key(docs_by_generation[k].doc)) > 0)
                  <=> (\E j \in 1 .. Len(posts) : Acked(j) /\ Carries(j, k))
        /\ \A k \in 1 .. NDocs :
              Occurrences(deletes, Key(docs_by_generation[k].doc)) <= 1
        /\ Len(deletes) = Len(acks)
        /\ \A i \in 1 .. Len(deletes) :
              \E k \in 1 .. NDocs :
                  /\ deletes[i] = Key(docs_by_generation[k].doc)
                  /\ Carries(acks[i], k)
C3_Witness ==
    /\ InExchange /\ sync_enc_pool /\ NDocs = 3 /\ pc = "failed"
    /\ Len(acks) = 2 /\ Len(posts) = 3
    /\ deletes = <<Key(docs_by_generation[1].doc), Key(docs_by_generation[2].doc)>>

\* C4: at most one chunk request is outstanding; the outstanding one is the
\* latest issued and every chunk before it has been answered, so chunk k is
\* issued only after the answer to chunk k-1; chunks go out in increasing order.
C4_OneChunkAtATime ==
    /\ Cardinality({ r \in inflight : r.method = "POST" }) <= 1
    /\ \A r \in inflight :
          r.method = "POST" =>
              /\ r.n = Len(posts)
              /\ Len(acks) = r.n - 1
              /\ \A j \in 1 .. r.n - 1 : Acked(j)
    /\ Len(posts) <= Len(acks) + 1
    /\ \A j \in 1 .. Len(posts) - 1 :
          posts[j][Len(posts[j])].doc_idx < posts[j + 1][1].doc_idx
C4_Witness ==
    /\ pc = "posting" /\ inflight = {PostReq(3)} /\ Len(acks) = 2
    /\ Len(posts) = 3

\* C5: the k-th entry put on the wire is built from the k-th tuple of
\* docs_by_generation, with doc_idx = k and number_of_docs = N; together with
\* the entries still waiting they are the N entries of the list, in order.
C5_EntriesInCallerOrder ==
    InExchange =>
        LET all == Wire \o entries IN
        /\ Len(all) <= NDocs
        /\ (pc \in {"posting", "receiving", "done"} => Len(all) = NDocs)
        /\ (SendReturned => Len(Wire) = NDocs)
        /\ \A k \in 1 .. Len(all) :
              /\ all[k].id = docs_by_generation[k].doc.doc_id
              /\ all[k].rev = docs_by_generation[k].doc.rev
              /\ all[k].gen = docs_by_generation[k].gen
              /\ all[k].trans_id = docs_by_generation[k].trans_id
              /\ all[k].doc_idx = k
              /\ all[k].number_of_docs = NDocs
C5_Witness ==
    /\ SendReturned /\ NDocs = 3 /\ Len(Wire) = 3
    /\ docs_by_generation[1].doc.doc_id = 3
    /\ Wire[1].id = 3 /\ Wire[3].id = 1 /\ Wire[3].doc_idx = 3

\* C6: once the request of chunk k has failed the send is over: the call has
\* ended with the error, chunk k was issued once and is the last chunk ever
\* issued, only the k-1 chunks before it have deletions and progress events,
\* and no generation/transaction-id pair is returned.
C6_FailedChunkAborts ==
    \A i \in ChunkFailures :
        LET k == failures[i].req.n IN
        /\ pc = "failed"
        /\ err = _unauth_to_invalid_token_error(failures[i].failure)
        /\ Cardinality(ChunkFailures) = 1
        /\ Len(posts) = k
        /\ inflight = {}
        /\ Len(acks) = k - 1
        /\ Len(deletes) = IF sync_enc_pool THEN k - 1 ELSE 0
        /\ \A m \in k .. NDocs :
              Occurrences(deletes, Key(docs_by_generation[m].doc)) = 0
        /\ Len(events) = k - 1
        /\ gen_after_send = None /\ trans_id_after_send = NoneT
        /\ recv = <<>> /\ ret = <<>>
C6_Witness ==
    /\ InExchange /\ pc = "failed" /\ sync_enc_pool /\ NDocs = 3
    /\ ChunkFailures = {1} /\ failures[1].req.n = 2
    /\ Len(posts) = 2 /\ Len(deletes) = 1 /\ Len(events) = 1 /\ ret = <<>>

\* C7: sync_exchange returns the send phase's pair when gen_after_send is not
\* None and strictly greater than the received generation, and the receive
\* phase's pair in every other case; the generation returned is the greater
\* of the two.
C7_Reconciliation ==
    (InExchange /\ pc = "done") =>
        LET sendWins == gen_after_send # None /\ gen_after_send > recv[1] IN
        /\ sendWins => ret = <<gen_after_send, trans_id_after_send>>
        /\ ~ sendWins => ret = recv
        /\ ret[1] >= recv[1]
        /\ gen_after_send # None => ret[1] >= gen_after_send
        /\ ret[1] \in {gen_after_send, recv[1]}
C7_Witness ==
    /\ InExchange /\ pc = "done" /\ gen_after_send = 2 /\ recv[1] = 1
    /\ ret = <<2, trans_id_after_send>> /\ ret # recv

\* C8: the pair sync_exchange returns is the pair of the last chunk answer or
\* the pair of the receive phase, never a mix; a call that failed has
\* returned nothing and ended with the failure.
C8_NoMixedTuple ==
    InExchange =>
        /\ ret # <<>> =>
              /\ pc = "done" /\ err = NoErr
              /\ \/ ret = recv
                 \/ /\ acks # <<>>
                    /\ ret = <<last_answer.new_generation,
                               last_answer.new_transaction_id>>
        /\ pc = "failed" => (ret = <<>> /\ err # NoErr)
        /\ pc = "done" => ret # <<>>
C8_Witness ==
    /\ InExchange /\ pc = "done" /\ acks # <<>>
    /\ gen_after_send > recv[1] /\ trans_id_after_send # recv[2]
    /\ ret = <<last_answer.new_generation, last_answer.new_transaction_id>>

\* C9: after a send with staging enabled whose chunks were all accepted, no
\* staged entry remains for any of the documents sent.
C9_NoStagedEntryLeft ==
    (InExchange /\ sync_enc_pool /\ NDocs > 0 /\ Len(acks) = NDocs) =>
        \A k \in 1 .. NDocs : Key(docs_by_generation[k].doc) \notin staged

\* C10: a failed GET, PUT or chunk POST ends the call with InvalidAuthTokenError
\* when the failure is an HTTP 401 whose message is "401 Unauthorized", and
\* with the original failure in every other case.
C10_UnauthorizedMapping ==
    \A i \in 1 .. Len(failures) :
        LET f == failures[i].failure IN
        /\ pc = "failed"
        /\ (f.cls = "Error" /\ f.status = 401 /\ f.errmsg = "401 Unauthorized")
              => err = InvalidAuthTokenError
        /\ ~ (f.cls = "Error" /\ f.status = 401 /\ f.errmsg = "401 Unauthorized")
              => err = f
C10_Witness ==
    /\ InExchange /\ pc = "failed" /\ Len(failures) = 1
    /\ failures[1].req.n = 2
    /\ failures[1].failure.errmsg = "401 Unauthorized"
    /\ failures[1].failure.cls = "Error"
    /\ err = InvalidAuthTokenError


\* C14: the payload of each entry: null for a tombstone, with neither lookup
\* nor encryption; the inline ciphertext, without lookup, when staging is
\* disabled; with staging enabled the staged ciphertext as it is when the
\* pool holds one, and the inline ciphertext when it does not.  A live
\* document never gets a null payload.
C14_PayloadResolution ==
    [][ nresolved' = nresolved + 1 =>
          LET idx == nresolved'
              doc == docs_by_generation[idx].doc
              e == (Flatten(posts') \o entries')[idx]
          IN /\ e.id = doc.doc_id
             /\ doc.tombstone =>
                   (e.content = <<>> /\ lookups' = lookups)
             /\ (~ doc.tombstone /\ ~ sync_enc_pool) =>
                   (e.content = crypto_encrypt_doc(doc) /\ lookups' = lookups)
             /\ (~ doc.tombstone /\ sync_enc_pool /\ Key(doc) \in staged) =>
                   (e.content = StagedCt(doc) /\ Key(doc) \in lookups')
             /\ (~ doc.tombstone /\ sync_enc_pool /\ Key(doc) \notin staged) =>
                   (e.content = crypto_encrypt_doc(doc) /\ Key(doc) \in lookups')
             /\ ~ doc.tombstone => e.content # <<>> ]_vars
C14_Witness ==
    /\ InExchange /\ sync_enc_pool /\ NDocs = 3 /\ Len(Wire) = 3
    /\ Wire[1].content = StagedCt(docs_by_generation[1].doc)
    /\ Wire[2].content = <<>>
    /\ Wire[3].content = crypto_encrypt_doc(docs_by_generation[3].doc)
    /\ lookups = {Key(docs_by_generation[1].doc), Key(docs_by_generation[3].doc)}

\* C16: a chunk is issued only when the payload of every document has been
\* resolved; a failed lookup or encryption of any document ends the send with
\* no request issued and no staged entry deleted.
C16_ResolveAllBeforeSending ==
    InExchange =>
        /\ posts # <<>> => nresolved = NDocs
        /\ err = CryptoError =>
              /\ pc = "failed"
              /\ posts = <<>> /\ inflight = {} /\ acks = <<>>
              /\ deletes = <<>> /\ events = <<>>
              /\ recv = <<>> /\ ret = <<>>
C16_Witness ==
    /\ InExchange /\ NDocs = 3 /\ nresolved = 2 /\ err = CryptoError
    /\ Len(entries) = 2 /\ posts = <<>> /\ deletes = <<>> /\ pc = "failed"


\* C15: the receive phase starts only when every chunk of the send phase has
\* been answered, it gets the sync_id the send phase put in its metadata (the
\* caller's, or a new one when the caller gave none), and it is never
\* started when the send phase failed.
SendFailed == ChunkFailures # {} \/ err.cls \in {"CryptoError", "UnboundLocalError"}
C15_SendThenReceiveSameSyncId ==
    InExchange =>
        /\ IF sync_id_arg # NoneT THEN sync_id = sync_id_arg ELSE sync_id \in Uuids
        /\ NDocs > 0 => metadata_sync_id = sync_id
        /\ recv_sync_id # NoneT =>
              /\ recv_sync_id = sync_id
              /\ nresolved = NDocs /\ Len(posts) = NDocs /\ Len(acks) = NDocs
              /\ inflight = {} /\ ~ SendFailed
        /\ pc \in {"receiving", "done"} => recv_sync_id # NoneT
        /\ recv # <<>> => recv_sync_id # NoneT
        /\ SendFailed => (recv_sync_id = NoneT /\ recv = <<>> /\ pc = "failed")
C15_Witness ==
    /\ InExchange /\ pc = "done" /\ NDocs = 2 /\ Len(acks) = 2
    /\ sync_id_arg = NoneT
    /\ sync_id = "uuid-b" /\ metadata_sync_id = "uuid-b" /\ recv_sync_id = "uuid-b"

\* C20: one progress event per accepted chunk and no other; the k-th reads
\* k/N; the last one reads N/N exactly when the send has succeeded; with
\* staging enabled each event directly follows the deletion of the staged
\* entry of its chunk.
C20_ProgressEvents ==
    InExchange =>
        /\ Len(events) = Len(acks)
        /\ \A k \in 1 .. Len(events) : events[k] = _emit_send_status(k, NDocs)
        /\ NDocs > 0 =>
              ((gen_after_send # None)
                  <=> (events # <<>> /\ events[Len(events)] = <<NDocs, NDocs>>))
        /\ NDocs = 0 => events = <<>>
        /\ \A i \in 1 .. Len(effects) :
              (effects[i].op = "emit" /\ sync_enc_pool) =>
                  /\ i > 1
                  /\ effects[i - 1] =
                        [op |-> "delete",
                         arg |-> Key(docs_by_generation[effects[i].arg[1]].doc)]
        /\ Cardinality({ i \in 1 .. Len(effects) : effects[i].op = "emit" })
              = Len(events)
C20_Witness ==
    /\ InExchange /\ sync_enc_pool /\ NDocs = 3 /\ SendReturned
    /\ events = << <<1, 3>>, <<2, 3>>, <<3, 3>> >>
    /\ Len(effects) = 6 /\ effects[5].op = "delete" /\ effects[6].op = "emit"

\* ------------------------------------------------- Soledad.__init__
\* A process is started: Soledad(user_email) runs up to the secret part
\* (the keypair of the owner is there).
Start(p) ==
    /\ spc[p] = "off"
    /\ spc' = [spc EXCEPT ![p] = "has_secret"]
    /\ UNCHANGED <<secret_file, _secret, cyphertext, raised, stops,
                   first_secret, syncVars, apiVars, agentVars>>

\* if not self._has_secret(): self._gen_secret()
HasSecret(p) ==
    /\ spc[p] = "has_secret"
    /\ spc' = [spc EXCEPT ![p] =
                  IF _has_secret(secret_file) THEN "load" ELSE "gen"]
    /\ UNCHANGED <<secret_file, _secret, cyphertext, raised, stops,
                   first_secret, syncVars, apiVars, agentVars>>

\* _gen_secret up to f = open(self.SECRET_PATH, 'w')
GenSecret(p) ==
    /\ spc[p] = "gen"
    /\ \E secret \in Secrets :
          /\ _secret' = [_secret EXCEPT ![p] = SecretString(secret)]
          /\ cyphertext' = [cyphertext EXCEPT
                              ![p] = str(gpg_encrypt(secret, OwnKey))]
          /\ first_secret' = IF first_secret = "none" THEN secret
                             ELSE first_secret
    /\ secret_file' = open_w(secret_file)
    /\ spc' = [spc EXCEPT ![p] = "write"]
    /\ UNCHANGED <<raised, stops, syncVars, apiVars, agentVars>>

\* f.write(str(cyphertext)); f.close()
WriteSecret(p) ==
    /\ spc[p] = "write"
    /\ secret_file' = write_close(secret_file, cyphertext[p])
    /\ spc' = [spc EXCEPT ![p] = "load"]
    /\ UNCHANGED <<_secret, cyphertext, raised, stops, first_secret,
                   syncVars, apiVars, agentVars>>

\* _load_secret
LoadSecret(p) ==
    /\ spc[p] = "load"
    /\ IF ~ secret_file.exists \/ ~ secret_file.readable
       THEN \* open raises IOError, re-raised as IOError('Failed to open ...')
            /\ raised' = [raised EXCEPT ![p] = "IOError"]
            /\ spc' = [spc EXCEPT ![p] = "failed"]
            /\ UNCHANGED _secret
       ELSE LET res == gpg_decrypt(secret_file.content, OwnKey) IN
            \E outcome \in DecryptFailureOutcomes :
               IF res.ok \/ outcome = "result"
               THEN /\ _secret' = [_secret EXCEPT ![p] = res]
                    /\ spc' = [spc EXCEPT ![p] = "ready"]
                    /\ UNCHANGED raised
               ELSE /\ raised' = [raised EXCEPT ![p] = "decrypt error"]
                    /\ spc' = [spc EXCEPT ![p] = "failed"]
                    /\ UNCHANGED _secret
    /\ UNCHANGED <<secret_file, cyphertext, stops, first_secret,
                   syncVars, apiVars, agentVars>>

\* The process stops (it exits, or it is killed wherever it stands); what it
\* held in memory is gone, the file stays as it is.
Stop(p) ==
    /\ spc[p] # "off"
    /\ stops < MaxStops
    /\ stops' = stops + 1
    /\ spc' = [spc EXCEPT ![p] = "off"]
    /\ _secret' = [_secret EXCEPT ![p] = NoSecret]
    /\ cyphertext' = [cyphertext EXCEPT ![p] = <<>>]
    /\ raised' = [raised EXCEPT ![p] = "none"]
    /\ UNCHANGED <<secret_file, first_secret, syncVars, apiVars, agentVars>>

NextSecret ==
    \E p \in Procs :
        \/ Start(p)
        \/ HasSecret(p)
        \/ GenSecret(p)
        \/ WriteSecret(p)
        \/ LoadSecret(p)
        \/ Stop(p)

\* everything but the Soledad objects, at rest
NoSync ==
    /\ docs_by_generation = <<>>
    /\ sync_id_arg = NoneT
    /\ NewTarget
    /\ NewCreds("tok-a")
    /\ NewAgent("tok-a")

\* First use: no secret file, the processes of one owner not yet started.
InitSecret ==
    /\ NoSync
    /\ NoSoledad(Absent, AllOff)
SpecSecret == InitSecret /\ [][NextSecret]_vars

\* Any use: the process finds whatever file is there, and a caller may call
\* _load_secret on its own.
InitLoad ==
    /\ NoSync
    /\ \E file \in FoundFiles, at \in [Procs -> {"off", "load"}] :
          NoSoledad(file, at)
SpecLoad == InitLoad /\ [][NextSecret]_vars

\* ------------------------------------------------------------------ C11
Last(seq) == seq[Len(seq)]

\* C11: every request issued through the target carries the Authorization
\* value built from the token of the last set_creds before it, every request
\* issued through the agent is given the value built from the token of the
\* last set_token before it, and a request already issued keeps its headers
\* whatever is set afterwards.
C11_RotationAffectsLaterRequests ==
    /\ [](/\ \A i \in DOMAIN api_wire :
               api_wire[i].headers["Authorization"]
                   = <<TokenValue(Uuid, api_wire[i].token)>>
          /\ \A i \in DOMAIN agent_wire :
               /\ agent_wire[i].Authorization # <<>>
               /\ Last(agent_wire[i].Authorization)
                      = TokenValue(Uuid, agent_wire[i].token))
    /\ [][/\ \A i \in DOMAIN api_wire : api_wire'[i] = api_wire[i]
          /\ \A i \in DOMAIN agent_wire : agent_wire'[i] = agent_wire[i]]_vars

\* two chunks of one send with a rotation between them, and then a third
\* rotation that touches neither
C11_Witness ==
    /\ Len(api_wire) = 2
    /\ api_wire[1].method = "POST" /\ api_wire[2].method = "POST"
    /\ api_wire[1].token = "tok-a" /\ api_wire[2].token = "tok-b"
    /\ api_wire[1].headers["Authorization"] # api_wire[2].headers["Authorization"]
    /\ api_token = "tok-c"

\* ------------------------------------------------------------------ C18
\* C18: every request issued through PinnedTokenAgent carries exactly one
\* Authorization value, the one of the credentials current when it was
\* issued, also when the caller passes one Headers object to several
\* requests.
C18_ExactlyOneAuthorization ==
    \A i \in DOMAIN agent_wire :
        agent_wire[i].Authorization = <<TokenValue(Uuid, agent_wire[i].token)>>

\* ------------------------------------------------------------------ C19
\* C19: whatever requests were issued, the stored header dict holds only the
\* Authorization entry of the last set_creds, a request without a content
\* type carries no content-type entry, and a request with one carries its own.
C19_StoredHeaderUntouched ==
    /\ _auth_header = set_creds(Uuid, api_token)
    /\ \A i \in DOMAIN api_wire :
          /\ api_wire[i].method = "GET"
                => DOMAIN api_wire[i].headers = {"Authorization"}
          /\ api_wire[i].method = "PUT"
                => api_wire[i].headers["content-type"] = <<"application/json">>
          /\ api_wire[i].method = "POST"
                => api_wire[i].headers["content-type"]
                      = <<"application/x-soledad-sync-put">>

\* the GET of get_sync_info after the PUT of record_sync_info
C19_Witness ==
    /\ Len(api_wire) = 2
    /\ api_wire[1].method = "PUT"
    /\ "content-type" \in DOMAIN api_wire[1].headers
    /\ api_wire[2].method = "GET"
    /\ "content-type" \notin DOMAIN api_wire[2].headers

\* ------------------------------------------------------- C12, C13, C17
\* the file holds the whole ciphertext of one generated secret
Complete(file) ==
    file.exists /\ file.content \in { str(gpg_encrypt(secret, OwnKey)) :
                                         secret \in Secrets }
\* the secret the file holds for the owner ("" when it holds none)
Persisted(file) == gpg_decrypt(file.content, OwnKey).data

\* C12: a secret is generated and written only while no secret file exists,
\* a secret file that is there is never rewritten, and every process that
\* finished its initialisation holds the secret generated first.
C12_SecretPersistence ==
    /\ [][\A p \in Procs : spc[p] = "gen" /\ spc'[p] = "write"
                               => ~ secret_file.exists]_vars
    /\ [][Complete(secret_file) => secret_file' = secret_file]_vars
    /\ [](\A p \in Procs : spc[p] = "ready"
                               => _secret[p].data = first_secret)

\* C13: _load_secret raises when the file is missing, unreadable or does not
\* decrypt, so a process that finished its initialisation holds a secret
\* that was decrypted, and one that failed has an error raised.
C13_LoadFailsWithoutSecret ==
    \A p \in Procs :
        /\ spc[p] = "ready" => _secret[p].type = "result" /\ _secret[p].ok
        /\ spc[p] = "failed" => raised[p] \in {"IOError", "decrypt error"}

\* C17: the secret file does not exist or holds the whole ciphertext of one
\* generated secret, the persisted secret never changes once written, and
\* every process that finished its initialisation holds the persisted secret.
C17_AtomicFirstWrite ==
    /\ [](~ secret_file.exists \/ Complete(secret_file))
    /\ [][Complete(secret_file)
            => Persisted(secret_file') = Persisted(secret_file)]_vars
    /\ [](\A p \in Procs : spc[p] = "ready"
                               => /\ _secret[p].ok
                                  /\ _secret[p].data = Persisted(secret_file))

====
